---------------------------- MODULE Spec2Model ----------------------------
(***************************************************************************)
(* A model of SkillFormer's data and model pipeline (src/model.py):        *)
(*   - sample_frame_indices     the frame sampler                          *)
(*   - read_video_pyav          the decoder                                *)
(*   - VideoDataset.__getitem__ the sample assembler, with its fallback    *)
(*   - collate_fn / VideoProcessor.__call__   batching                     *)
(*   - inference                the batch loop                             *)
(*   - VideoClassifier._interpolate_time_embeddings                        *)
(*                                                                         *)
(* Arithmetic on frame positions is exact (rationals as num/den pairs):    *)
(* np.linspace and the division t / scale are modelled by their exact      *)
(* values, not by their float64 roundings.                                 *)
(***************************************************************************)
EXTENDS Integers, Sequences, FiniteSets, TLC

VARIABLES
    \* ---- frame sampler (sample_frame_indices) ----
    s_args,         \* [clip_len, rate, seg_len]: the arguments of the calls
    s_calls,        \* the results of the calls made so far, in call order
    s_rng,          \* the state of numpy's global random generator
    \* ---- decoder (read_video_pyav) ----
    d_len,          \* number of frames the stream yields
    d_indices,      \* the indices argument
    d_ret,          \* [status, frames]: "pending", "ok" or "error"
    \* ---- batching (collate_fn) ----
    c_examples,     \* the examples argument: samples and None entries
    c_ret,          \* [kind, pixel_values, labels, error]
    \* ---- dataset, loader and inference loop ----
    p_ann,          \* VideoDataset.annotations (p_ann[i+1] is annotation i)
    p_cams,         \* VideoDataset.camera_indices
    p_bs,           \* batch_size of the DataLoader
    p_stack,        \* the active __getitem__ calls, innermost last
    p_open,         \* the containers opened by av.open and not yet closed
    p_cursor,       \* the next dataset index the loader will request
    p_req,          \* the indices of the batch being assembled
    p_examples,     \* the results of __getitem__ for p_req, so far
    p_batch,        \* what collate_fn returned for the batch
    p_loop,         \* where the inference loop stands
    p_error,        \* the exception that ended the loop, "" if none
    p_forwards,     \* forward passes executed
    p_labels,       \* all_labels
    \* ---- encoder construction (time-embedding table) ----
    e_src,          \* the rows of the pretrained table (hidden size 1)
    e_layout,       \* 2: the table has shape (F, D); 3: shape (1, F, D)
    e_where,        \* where the table is found: "direct", "model", "scan", "absent"
    e_target,       \* config.num_frames
    e_table,        \* the rows of the encoder's table, as rationals
    e_id,           \* which parameter object the encoder holds (0: the pretrained one)
    e_grad,         \* requires_grad of the encoder's table
    e_new,          \* new_time_embeddings as computed, <<>> if none was
    e_cfg,          \* vision_encoder.config.num_frames
    e_pc,           \* "loaded", "built" or "error"
    \* ---- label lookup (VideoDataset.__getitem__, line 433) ----
    l_str,          \* ann['proficiency_level'], a sequence of characters
    l_ret,          \* the label looked up, -1 before the lookup
    \* ---- fusion projector (AttentiveProjector.forward) ----
    j_views,        \* the per-view embeddings of one sample, in input order
    j_perm,         \* a reordering of the views
    j_training,     \* Module.training: dropout is active
    j_w,            \* the attention kernel the weights define
    j_v,            \* the value projection the weights define
    j_out,          \* the forward passes made so far: [output, dropped]
    \* ---- annotation de-duplication (remove_duplicates_from_jsonl) ----
    r_lines,        \* the lines of the input file
    r_pos,          \* the line the loop reads next
    r_seen,         \* the keys of seen_first_paths
    r_out,          \* the lines written to the output file
    r_total,        \* total_lines
    r_unique,       \* unique_lines
    r_ret           \* the returned pair, or the pending marker

svars == <<s_args, s_calls, s_rng>>
dvars == <<d_len, d_indices, d_ret>>
cvars == <<c_examples, c_ret>>
pvars == <<p_ann, p_cams, p_bs, p_stack, p_open, p_cursor, p_req, p_examples,
           p_batch, p_loop, p_error, p_forwards, p_labels>>
evars == <<e_src, e_layout, e_where, e_target, e_table, e_id, e_grad, e_new,
           e_cfg, e_pc>>
lvars == <<l_str, l_ret>>
jvars == <<j_views, j_perm, j_training, j_w, j_v, j_out>>
rvars == <<r_lines, r_pos, r_seen, r_out, r_total, r_unique, r_ret>>
vars == <<svars, dvars, cvars, pvars, evars, lvars, jvars, rvars>>

(***************************************************************************)
(* Bounds of the model.                                                    *)
(***************************************************************************)
MaxClipLen == 4     \* clip_len ranges over 1..MaxClipLen
MaxRate == 3        \* frame_sample_rate ranges over 1..MaxRate
MaxSegLen == 9      \* seg_len ranges over 1..MaxSegLen
MaxCalls == 2       \* sampling calls made with the same arguments
MaxStream == 4      \* frames a stream yields: 0..MaxStream
MaxIdx == 4         \* frame indices asked of the decoder: 0..MaxIdx
MaxIdxLen == 3      \* length of the indices argument: 1..MaxIdxLen
MaxBatch == 3       \* examples handed to collate_fn: 1..MaxBatch
MaxViews == 2       \* views of a sample: 1..MaxViews
AnnIds == {0, 1}    \* annotations the collated samples come from
FrameCounts == {1, 2}   \* frames (T) of a decoded view
NumAnn == 2         \* annotations of the dataset
NumFrames == 2      \* VideoDataset.num_frames, the clip length
FrameSampleRate == 4    \* the sample rate __getitem__ passes to the sampler
MaxSrcLen == 4      \* rows of the pretrained table: 1..MaxSrcLen, and PretrainedFrames
MaxTarget == 9      \* config.num_frames ranges over 1..MaxTarget
PretrainedFrames == 8   \* the frame count __init__ takes the checkpoint to have
RngStates == 8      \* states of the random generator: 0..RngStates-1
MaxFlips == 2       \* letters of a class name whose case is changed: 0..MaxFlips
MaxFused == 3       \* views the projector fuses: 1..MaxFused
MaxLines == 3       \* lines of the annotation file to de-duplicate: 0..MaxLines
Tokens == {1, 2}    \* the distinct per-view embeddings of a sample
KernelValues == {1, 2}  \* unnormalised attention weights exp(q.k / sqrt(d))
DropoutPercent == 10    \* the projector's dropout probability, in percent

(***************************************************************************)
(* Helpers.                                                                *)
(***************************************************************************)
Max(a, b) == IF a >= b THEN a ELSE b
Min(a, b) == IF a <= b THEN a ELSE b
Range(s) == {s[i] : i \in DOMAIN s}
NonDecreasing(s) == \A i \in DOMAIN s : \A j \in DOMAIN s : i <= j => s[i] <= s[j]
Rat(n, d) == [num |-> n, den |-> d]

(***************************************************************************)
(* sample_frame_indices (src/model.py 495-511).                            *)
(***************************************************************************)
\* np.linspace(start, stop, num)[i], 0-based i: start + i * (stop-start)/(num-1),
\* the last element being stop itself; a single element is start.
Linspace(start, stop, num, i) ==
    IF num = 1 THEN Rat(start, 1)
    ELSE Rat(start * (num - 1) + i * (stop - start), num - 1)

\* np.clip(x, lo, hi) == minimum(maximum(x, lo), hi): hi wins when lo > hi.
Clip(x, lo, hi) ==
    LET m1 == IF x.num < lo * x.den THEN Rat(lo, 1) ELSE x
    IN  IF m1.num > hi * m1.den THEN Rat(hi, 1) ELSE m1

\* .astype(np.int64): truncation toward zero.
AsInt64(x) ==
    IF x.num >= 0 THEN x.num \div x.den ELSE -((-x.num) \div x.den)

\* The end index: the random draw when seg_len > converted_len, else seg_len - 1.
EndIdx(clip_len, frame_sample_rate, seg_len, draw) ==
    IF seg_len > clip_len * frame_sample_rate THEN draw ELSE seg_len - 1

\* The values np.random.randint(converted_len, seg_len) can return.
Draws(clip_len, frame_sample_rate, seg_len) ==
    IF seg_len > clip_len * frame_sample_rate
    THEN (clip_len * frame_sample_rate)..(seg_len - 1)
    ELSE {0}

\* np.random.randint(low, high) on the global generator: the value returned
\* is a function of the generator's state, and the call advances the state.
Randint(state, low, high) == low + (state % (high - low))
RngStep(state) == (5 * state + 3) % RngStates

\* sample_frame_indices clipping to [start_idx, end_idx].
sample_frame_indices_clip_to_end(clip_len, frame_sample_rate, seg_len, draw) ==
    LET converted_len == clip_len * frame_sample_rate
        end_idx == EndIdx(clip_len, frame_sample_rate, seg_len, draw)
        start_idx == Max(end_idx - converted_len, 0)
    IN  [k \in 1..clip_len |->
            AsInt64(Clip(Linspace(start_idx, end_idx, clip_len, k - 1),
                         start_idx, end_idx))]

sample_frame_indices(clip_len, frame_sample_rate, seg_len, draw) ==
    LET converted_len == clip_len * frame_sample_rate
        end_idx == EndIdx(clip_len, frame_sample_rate, seg_len, draw)
        start_idx == Max(end_idx - converted_len, 0)
    IN  [k \in 1..clip_len |->
            AsInt64(Clip(Linspace(start_idx, end_idx, clip_len, k - 1),
                         start_idx, end_idx - 1))]

(***************************************************************************)
(* read_video_pyav (src/model.py 475-493).  A frame is named by its        *)
(* position in the stream.                                                 *)
(***************************************************************************)
RECURSIVE DecodeLoop(_, _, _, _)
DecodeLoop(i, stream_len, indices, frames) ==
    IF i >= stream_len THEN frames                      \* the stream ended
    ELSE IF i > indices[Len(indices)] THEN frames       \* break
    ELSE IF i >= indices[1] /\ i \in Range(indices)
         THEN DecodeLoop(i + 1, stream_len, indices, Append(frames, i))
         ELSE DecodeLoop(i + 1, stream_len, indices, frames)

\* np.stack raises on an empty list of frames.
read_video_pyav(stream_len, indices) ==
    LET frames == DecodeLoop(0, stream_len, indices, <<>>)
    IN  IF frames = <<>> THEN [status |-> "error", frames |-> <<>>]
        ELSE [status |-> "ok", frames |-> frames]

(***************************************************************************)
(* Samples and batches.  A decoded view is named by the annotation and     *)
(* camera it was read from and by the stream positions of its frames; an   *)
(* example is a sample {'videos', 'label'} or None.                        *)
(***************************************************************************)
View(ann, cam, frames) == [ann |-> ann, cam |-> cam, frames |-> frames]
Sample(videos, label) == [kind |-> "sample", videos |-> videos, label |-> label]
NoneExample == [kind |-> "none", videos |-> <<>>, label |-> 0]

NoBatch == [kind |-> "none", pixel_values |-> <<>>, labels |-> <<>>, error |-> ""]
StackError(why) == [kind |-> "error", pixel_values |-> <<>>, labels |-> <<>>, error |-> why]

(***************************************************************************)
(* VideoProcessor.__call__ (src/model.py 137-154): torch.stack over the    *)
(* views of each example, then over the examples; torch.stack raises on    *)
(* an empty list and on tensors of different shapes.  The error names the  *)
(* dimension that differs.                                                 *)
(***************************************************************************)
SameT(example_videos) ==
    \A i \in DOMAIN example_videos : \A j \in DOMAIN example_videos :
        Len(example_videos[i].frames) = Len(example_videos[j].frames)

\* The first element of a non-empty set of positions.
First(S) == CHOOSE e \in S : \A f \in S : e <= f

VideoProcessor(videos) ==
    LET badInside == {e \in DOMAIN videos : videos[e] = <<>> \/ ~SameT(videos[e])}
        badAcross == {e \in DOMAIN videos :
                        \/ Len(videos[e]) # Len(videos[1])
                        \/ Len(videos[e][1].frames) # Len(videos[1][1].frames)}
    IN  IF badInside # {}
        THEN StackError(IF videos[First(badInside)] = <<>> THEN "empty" ELSE "frames")
        ELSE IF badAcross # {}
        THEN StackError(IF Len(videos[First(badAcross)]) # Len(videos[1])
                        THEN "views" ELSE "frames")
        ELSE [kind |-> "batch", pixel_values |-> videos, labels |-> <<>>, error |-> ""]

(***************************************************************************)
(* collate_fn (src/model.py 445-468).                                      *)
(***************************************************************************)
\* FilterNone building its list back to front.
RECURSIVE FilterNoneReversed(_)
FilterNoneReversed(examples) ==
    IF examples = <<>> THEN <<>>
    ELSE IF Head(examples).kind = "none" THEN FilterNoneReversed(Tail(examples))
    ELSE FilterNoneReversed(Tail(examples)) \o <<Head(examples)>>

\* examples = [ex for ex in examples if ex is not None]
RECURSIVE FilterNone(_)
FilterNone(examples) ==
    IF examples = <<>> THEN <<>>
    ELSE IF Head(examples).kind = "none" THEN FilterNone(Tail(examples))
    ELSE <<Head(examples)>> \o FilterNone(Tail(examples))

collate_fn(examples) ==
    LET kept == FilterNone(examples)
        all_videos == [k \in DOMAIN kept |-> kept[k].videos]
        labels == [k \in DOMAIN kept |-> kept[k].label]
        batch == VideoProcessor(all_videos)
    IN  IF kept = <<>> THEN NoBatch
        ELSE IF batch.kind = "error" THEN batch
        ELSE [batch EXCEPT !.labels = labels]

(***************************************************************************)
(* Label lookup (src/model.py 407, 433): labels.get(s.title(), 0).  A      *)
(* string is the sequence of its characters.                               *)
(***************************************************************************)
LowerCase == <<"a", "b", "c", "d", "e", "f", "g", "h", "i", "j", "k", "l", "m",
               "n", "o", "p", "q", "r", "s", "t", "u", "v", "w", "x", "y", "z">>
UpperCase == <<"A", "B", "C", "D", "E", "F", "G", "H", "I", "J", "K", "L", "M",
               "N", "O", "P", "Q", "R", "S", "T", "U", "V", "W", "X", "Y", "Z">>
IsLetter(ch) == ch \in Range(LowerCase) \cup Range(UpperCase)
Upper(ch) == IF \E i \in 1..26 : LowerCase[i] = ch
             THEN UpperCase[CHOOSE i \in 1..26 : LowerCase[i] = ch] ELSE ch
Lower(ch) == IF \E i \in 1..26 : UpperCase[i] = ch
             THEN LowerCase[CHOOSE i \in 1..26 : UpperCase[i] = ch] ELSE ch

\* str.capitalize(): the first character upper-cased, the rest lower-cased.
Capitalize(s) ==
    [i \in DOMAIN s |-> IF i = 1 THEN Upper(s[i]) ELSE Lower(s[i])]

\* str.title(): a letter that follows a non-letter (or starts the string) is
\* upper-cased, every other letter lower-cased.
Title(s) ==
    [i \in DOMAIN s |->
        IF i = 1 \/ ~IsLetter(s[i - 1]) THEN Upper(s[i]) ELSE Lower(s[i])]

Novice == <<"N", "o", "v", "i", "c", "e">>
EarlyExpert == <<"E", "a", "r", "l", "y", " ", "E", "x", "p", "e", "r", "t">>
IntermediateExpert == <<"I", "n", "t", "e", "r", "m", "e", "d", "i", "a", "t", "e",
                        " ", "E", "x", "p", "e", "r", "t">>
LateExpert == <<"L", "a", "t", "e", " ", "E", "x", "p", "e", "r", "t">>

\* self.labels.get(key, 0)
LabelsGet(key) ==
    IF key = Novice THEN 0
    ELSE IF key = EarlyExpert THEN 1
    ELSE IF key = IntermediateExpert THEN 2
    ELSE IF key = LateExpert THEN 3
    ELSE 0

LabelOf(proficiency_level) == LabelsGet(Title(proficiency_level))

(***************************************************************************)
(* VideoClassifier._interpolate_time_embeddings (src/model.py 293-320).    *)
(* Rows are rationals; t / scale is t * orig_frames / target_frames.       *)
(***************************************************************************)
RatEq(x, y) == x.num * y.den = y.num * x.den

\* InterpolatedRow with the two weights exchanged.
InterpolatedRowSwapped(rows, target_frames, t) ==
    LET orig_frames == Len(rows)
        clamped == t * orig_frames > (orig_frames - 1) * target_frames
        orig_t_num == IF clamped THEN (orig_frames - 1) * target_frames ELSE t * orig_frames
        t_floor == orig_t_num \div target_frames
        t_ceil == Min(t_floor + 1, orig_frames - 1)
        frac_num == orig_t_num - t_floor * target_frames
        lo == rows[t_floor + 1]
        hi == rows[t_ceil + 1]
    IN  Rat(frac_num * lo.num * hi.den + (target_frames - frac_num) * hi.num * lo.den,
            target_frames * lo.den * hi.den)

\* Row t (0-based) of the new table.
InterpolatedRow(rows, target_frames, t) ==
    LET orig_frames == Len(rows)
        clamped == t * orig_frames > (orig_frames - 1) * target_frames
        \* orig_t = min(t / scale, orig_frames - 1), over the denominator target_frames
        orig_t_num == IF clamped THEN (orig_frames - 1) * target_frames ELSE t * orig_frames
        t_floor == orig_t_num \div target_frames
        t_ceil == Min(t_floor + 1, orig_frames - 1)
        frac_num == orig_t_num - t_floor * target_frames
        lo == rows[t_floor + 1]
        hi == rows[t_ceil + 1]
    IN  Rat((target_frames - frac_num) * lo.num * hi.den + frac_num * hi.num * lo.den,
            target_frames * lo.den * hi.den)

Interpolate(rows, target_frames) ==
    [k \in 1..target_frames |-> InterpolatedRow(rows, target_frames, k - 1)]

\* orig_size[0]: the frame count of an (F, D) table, 1 for a (1, F, D) table.
OrigSize0(rows, layout) == IF layout = 2 THEN Len(rows) ELSE 1

(***************************************************************************)
(* AttentiveProjector.forward (src/model.py 76-111), one sample of the     *)
(* batch and one output coordinate of one attention head.  A view is named *)
(* by its embedding (a token).  Everything forward applies to one view at  *)
(* a time (view_norm, the query, key and value projections) is a table     *)
(* over tokens: w[a][b] is the unnormalised attention weight of query a on *)
(* key b, v[b] the projected value of b.  Softmax divides by the row sum.  *)
(* In training mode dropout zeroes elements and scales the kept ones by    *)
(* 1 / (1 - p); `dropped` holds <<i, j>> for a zeroed attention weight and *)
(* <<0, 0>> for the zeroed hidden unit.                                    *)
(***************************************************************************)
RECURSIVE GCD(_, _)
GCD(a, b) == IF b = 0 THEN a ELSE GCD(b, a % b)
Reduced(x) ==
    IF x.num = 0 THEN Rat(0, 1)
    ELSE LET g == GCD(x.num, x.den) IN Rat(x.num \div g, x.den \div g)
RatAdd(x, y) == Reduced(Rat(x.num * y.den + y.num * x.den, x.den * y.den))

RECURSIVE SumInts(_, _)
SumInts(f, n) == IF n = 0 THEN 0 ELSE f[n] + SumInts(f, n - 1)
RECURSIVE SumRats(_, _)
SumRats(f, n) == IF n = 0 THEN Rat(0, 1) ELSE RatAdd(f[n], SumRats(f, n - 1))

\* attn_output[:, i]: softmax over the keys, dropout on the weights, weighted
\* sum of the values.
AttnOutput(views, w, v, dropped, training, i) ==
    LET V == Len(views)
        weight == [j \in 1..V |-> w[views[i]][views[j]]]
        kept == [j \in 1..V |->
                   IF <<i, j>> \in dropped THEN 0 ELSE weight[j] * v[views[j]]]
        row_sum == SumInts(weight, V)
    IN  IF training
        THEN Reduced(Rat(100 * SumInts(kept, V), (100 - DropoutPercent) * row_sum))
        ELSE Reduced(Rat(SumInts(kept, V), row_sum))

\* Pooling that keeps the first view's output only.
PoolFirst(attn_output) == attn_output[1]

\* attn_output.mean(dim=1)
Pool(attn_output) ==
    LET total == SumRats(attn_output, Len(attn_output))
    IN  Rat(total.num, total.den * Len(attn_output))

\* forward(video_feats).  The layers after the pooling (proj1, GELU, norm1,
\* dropout, gate, proj2, norm_final, normalize_to_text_stats) make the output
\* a function of fused_feats and of whether dropout zeroed the hidden unit;
\* the output is represented by that pair.
Forward(views, w, v, dropped, training) ==
    LET attn_output == [i \in 1..Len(views) |->
                          AttnOutput(views, w, v, dropped, training, i)]
    IN  [fused_feats |-> Reduced(Pool(attn_output)),
         hidden_kept |-> <<0, 0>> \notin dropped]

(***************************************************************************)
(* The state of each machine while another one runs.                       *)
(***************************************************************************)
SamplerIdle ==
    s_args = [clip_len |-> 1, rate |-> 1, seg_len |-> 1] /\ s_calls = <<>> /\ s_rng = 0
DecoderIdle == d_len = 0 /\ d_indices = <<0>> /\ d_ret = [status |-> "pending", frames |-> <<>>]
Pending == [kind |-> "pending", pixel_values |-> <<>>, labels |-> <<>>, error |-> ""]
CollateIdle == c_examples = <<>> /\ c_ret = Pending
PipelineIdle ==
    /\ p_ann = <<>> /\ p_cams = <<>> /\ p_bs = 1 /\ p_stack = <<>> /\ p_open = <<>>
    /\ p_cursor = 0 /\ p_req = <<>> /\ p_examples = <<>> /\ p_batch = Pending
    /\ p_loop = "done" /\ p_error = "" /\ p_forwards = 0 /\ p_labels = <<>>
EncoderIdle ==
    /\ e_src = <<0>> /\ e_layout = 3 /\ e_where = "direct" /\ e_target = 8
    /\ e_table = <<Rat(0, 1)>> /\ e_id = 0 /\ e_grad = TRUE /\ e_new = <<>>
    /\ e_cfg = 1 /\ e_pc = "built"
LabelIdle == l_str = <<>> /\ l_ret = 0
ProjectorIdle ==
    /\ j_views = <<>> /\ j_perm = <<>> /\ j_training = FALSE
    /\ j_w = <<>> /\ j_v = <<>> /\ j_out = <<>>
NoReturn == [unique_lines |-> -1, duplicates |-> -1]
DedupIdle ==
    /\ r_lines = <<>> /\ r_pos = 1 /\ r_seen = {} /\ r_out = <<>>
    /\ r_total = 0 /\ r_unique = 0 /\ r_ret = [unique_lines |-> 0, duplicates |-> 0]

(***************************************************************************)
(* The sampler as a machine: calls with the same arguments, one after the  *)
(* other.                                                                  *)
(***************************************************************************)
SamplerInit ==
    /\ s_args \in [clip_len : 1..MaxClipLen, rate : 1..MaxRate, seg_len : 1..MaxSegLen]
    /\ s_calls = <<>>
    /\ s_rng \in 0..(RngStates - 1)
    /\ DecoderIdle /\ CollateIdle /\ PipelineIdle /\ EncoderIdle
    /\ LabelIdle /\ ProjectorIdle /\ DedupIdle

\* One call sample_frame_indices(clip_len, rate, seg_len).  The generator is
\* read and advanced only on the branch that draws (line 507).
SampleCall ==
    /\ Len(s_calls) < MaxCalls
    /\ LET converted_len == s_args.clip_len * s_args.rate
           drawing == s_args.seg_len > converted_len
           draw == IF drawing THEN Randint(s_rng, converted_len, s_args.seg_len) ELSE 0
       IN  /\ s_calls' = Append(s_calls,
                  [end_idx |-> EndIdx(s_args.clip_len, s_args.rate, s_args.seg_len, draw),
                   indices |-> sample_frame_indices(s_args.clip_len, s_args.rate,
                                                    s_args.seg_len, draw),
                   rng |-> s_rng])
           /\ s_rng' = IF drawing THEN RngStep(s_rng) ELSE s_rng
    /\ UNCHANGED <<s_args, dvars, cvars, pvars, evars, lvars, jvars, rvars>>

\* A sampling call made for another view or another sample (line 425) whose
\* stream is longer than the sampling window: it draws from the same generator.
OtherSampleCall ==
    /\ s_rng' = RngStep(s_rng)
    /\ UNCHANGED <<s_args, s_calls, dvars, cvars, pvars, evars, lvars, jvars, rvars>>

SamplerNext == SampleCall \/ OtherSampleCall
SpecSampler == SamplerInit /\ [][SamplerNext]_vars

(***************************************************************************)
(* The label lookup as a machine: one lookup of a proficiency string, as   *)
(* line 433 does for the annotation at hand.  The strings are the class    *)
(* names in other casings, and strings that are no class name.             *)
(***************************************************************************)
RECURSIVE SubsetsUpTo(_, _)
SubsetsUpTo(D, k) ==
    IF k = 0 THEN {{}}
    ELSE LET prev == SubsetsUpTo(D, k - 1)
         IN  prev \cup {T \cup {i} : T \in prev, i \in D}

FlipCase(ch) == IF ch \in Range(UpperCase) THEN Lower(ch) ELSE Upper(ch)
Recased(name, S) == [i \in DOMAIN name |-> IF i \in S THEN FlipCase(name[i]) ELSE name[i]]
AllLower(s) == [i \in DOMAIN s |-> Lower(s[i])]
AllUpper(s) == [i \in DOMAIN s |-> Upper(s[i])]

ClassNames == {Novice, EarlyExpert, IntermediateExpert, LateExpert}
Casings(name) ==
    {Recased(name, S) : S \in SubsetsUpTo(DOMAIN name, MaxFlips)}
        \cup {AllLower(name), AllUpper(name), Recased(AllUpper(name), {1})}
OtherStrings ==
    { <<>>,
      <<"x", "y", "z">>,
      <<"e", "x", "p", "e", "r", "t">>,
      <<"n", "o", "v", "i", "c", "e", " ">>,
      <<" ", "N", "o", "v", "i", "c", "e">>,
      <<"n", "o", "v", "i", "c", "e", "s">>,
      <<"l", "a", "t", "e", "-", "e", "x", "p", "e", "r", "t">>,
      <<"L", "a", "t", "e", "E", "x", "p", "e", "r", "t">>,
      <<"l", "a", "t", "e", " ", " ", "e", "x", "p", "e", "r", "t">>,
      <<"e", "a", "r", "l", "y", "_", "e", "x", "p", "e", "r", "t">>,
      <<"3">> }
LabelStrings == UNION {Casings(name) : name \in ClassNames} \cup OtherStrings

LabelInit ==
    /\ l_str \in LabelStrings
    /\ l_ret = -1
    /\ SamplerIdle /\ DecoderIdle /\ CollateIdle /\ PipelineIdle /\ EncoderIdle
    /\ ProjectorIdle /\ DedupIdle

LookupLabel ==
    /\ l_ret = -1
    /\ l_ret' = LabelOf(l_str)
    /\ UNCHANGED <<l_str, svars, dvars, cvars, pvars, evars, jvars, rvars>>

LabelNext == LookupLabel
SpecLabel == LabelInit /\ [][LabelNext]_vars

(***************************************************************************)
(* The decoder as a machine: one call on a stream and an index sequence.   *)
(***************************************************************************)
IndexSeqs == UNION {[1..n -> 0..MaxIdx] : n \in 1..MaxIdxLen}

DecoderInit ==
    /\ d_len \in 0..MaxStream
    /\ d_indices \in {s \in IndexSeqs : NonDecreasing(s)}
    /\ d_ret = [status |-> "pending", frames |-> <<>>]
    /\ SamplerIdle /\ CollateIdle /\ PipelineIdle /\ EncoderIdle
    /\ LabelIdle /\ ProjectorIdle /\ DedupIdle

DecodeCall ==
    /\ d_ret.status = "pending"
    /\ d_ret' = read_video_pyav(d_len, d_indices)
    /\ UNCHANGED <<d_len, d_indices, svars, cvars, pvars, evars, lvars, jvars, rvars>>

DecoderNext == DecodeCall
SpecDecoder == DecoderInit /\ [][DecoderNext]_vars

(***************************************************************************)
(* collate_fn as a machine: one call on a list of examples.                *)
(***************************************************************************)
\* A sample of annotation a with v views of t frames each.
SampleOf(a, v, t, label) ==
    Sample([c \in 1..v |-> View(a, c - 1, [k \in 1..t |-> k - 1])], label)

CollateExamples ==
    {NoneExample} \cup
    {SampleOf(a, v, t, l) : a \in AnnIds, v \in 1..MaxViews, t \in FrameCounts, l \in {0, 3}}

CollateInit ==
    /\ c_examples \in UNION {[1..n -> CollateExamples] : n \in 1..MaxBatch}
    /\ c_ret = Pending
    /\ SamplerIdle /\ DecoderIdle /\ PipelineIdle /\ EncoderIdle
    /\ LabelIdle /\ ProjectorIdle /\ DedupIdle

CollateCall ==
    /\ c_ret.kind = "pending"
    /\ c_ret' = collate_fn(c_examples)
    /\ UNCHANGED <<c_examples, svars, dvars, pvars, evars, lvars, jvars, rvars>>

CollateNext == CollateCall
SpecCollate == CollateInit /\ [][CollateNext]_vars

(***************************************************************************)
(* The dataset, the DataLoader and the inference loop as a machine.        *)
(*                                                                         *)
(* A video file is what av.open and the decoder make of a path: whether it *)
(* opens, the frame count its stream header reports                        *)
(* (container.streams.video[0].frames) and the frames it actually yields.  *)
(***************************************************************************)
VideoFile(open, meta, actual) == [open |-> open, meta |-> meta, actual |-> actual]
LongLen == NumFrames * FrameSampleRate + 2      \* longer than the sampling window
VideoFiles ==
    { VideoFile(FALSE, 0, 0),               \* cannot be opened
      VideoFile(TRUE, LongLen, LongLen),    \* a full-length video
      VideoFile(TRUE, 1, 1),                \* a single frame
      VideoFile(TRUE, 2, 2) }               \* two frames
PathCounts == {0, 1, 2}
CameraChoices == { <<0>>, <<0, 1>>, <<1, 0>>, <<0, -1>> }
\* The path lists of an annotation: of those with several paths, the ones
\* that hold a full-length video beside a video that opens and decodes, one
\* that opens and fails to decode, or one that does not open.
PathLists ==
    {paths \in UNION {[1..n -> VideoFiles] : n \in PathCounts} :
        Len(paths) < 2 \/ (/\ VideoFile(TRUE, LongLen, LongLen) \in Range(paths)
                            /\ VideoFile(TRUE, 2, 2) \notin Range(paths))}
\* The proficiency strings of the annotation file, line by line (repeating).
Proficiencies == << <<"n", "o", "v", "i", "c", "e">>,
                    <<"L", "A", "T", "E", " ", "E", "X", "P", "E", "R", "T">>,
                    <<"x", "y", "z">> >>
ProficiencyAt(i) == Proficiencies[((i - 1) % Len(Proficiencies)) + 1]

\* A __getitem__ call: its index, its place in camera_indices, the views
\* loaded so far, where it stands, and what its nested call returned.
Frame(idx) == [idx |-> idx, pos |-> 1, videos |-> <<>>, pc |-> "loop", ret |-> NoneExample]

PipelineInit ==
    /\ p_ann \in {[i \in 1..NumAnn |->
                     [video_paths |-> paths[i], proficiency_level |-> ProficiencyAt(i)]] :
                  paths \in [1..NumAnn -> PathLists]}
    /\ p_cams \in CameraChoices
    /\ p_bs \in {1, NumAnn}
    /\ p_stack = <<>> /\ p_open = <<>>
    /\ p_cursor = 0 /\ p_req = <<>> /\ p_examples = <<>> /\ p_batch = Pending
    /\ p_loop = "next" /\ p_error = "" /\ p_forwards = 0 /\ p_labels = <<>>
    /\ SamplerIdle /\ DecoderIdle /\ CollateIdle /\ EncoderIdle
    /\ LabelIdle /\ ProjectorIdle /\ DedupIdle

Top == p_stack[Len(p_stack)]
SetTop(f) == [p_stack EXCEPT ![Len(p_stack)] = f]
TopAnn == p_ann[Top.idx + 1]
TopCam == p_cams[Top.pos]
\* video_paths[cam_idx] reads position PathIndex - 1 of the list: an index below
\* zero counts from the end of the list, and IndexError is raised when the
\* position is not in the list.
PathIndex(video_paths, cam_idx) ==
    IF cam_idx >= 0 THEN cam_idx + 1 ELSE Len(video_paths) + cam_idx + 1
TopPath == PathIndex(TopAnn.video_paths, TopCam)
LoopVars == <<p_cursor, p_req, p_batch, p_loop, p_error, p_forwards, p_labels>>
DataVars == <<p_ann, p_cams, p_bs>>
NotPipeline == <<svars, dvars, cvars, evars, lvars, jvars, rvars>>

\* `for batch in test_loader`: the loader takes the next batch_size indices,
\* or ends the loop.
LoaderNext ==
    /\ p_loop = "next"
    /\ IF p_cursor >= Len(p_ann)
       THEN /\ p_loop' = "done"
            /\ UNCHANGED <<p_cursor, p_req, p_examples, p_batch>>
       ELSE LET n == Min(p_bs, Len(p_ann) - p_cursor)
            IN  /\ p_req' = [k \in 1..n |-> p_cursor + k - 1]
                /\ p_cursor' = p_cursor + n
                /\ p_examples' = <<>>
                /\ p_batch' = Pending
                /\ p_loop' = "fetch"
    /\ UNCHANGED <<NotPipeline, DataVars, p_stack, p_open, p_error, p_forwards, p_labels>>

\* The loader calls dataset[idx] for the next index of the batch.
GetItemCall ==
    /\ p_loop = "fetch" /\ p_stack = <<>> /\ Len(p_examples) < Len(p_req)
    /\ p_stack' = <<Frame(p_req[Len(p_examples) + 1])>>
    /\ UNCHANGED <<NotPipeline, DataVars, p_open, p_examples, LoopVars>>

\* `if cam_idx >= len(video_paths): continue`
ViewSkip ==
    /\ p_stack # <<>> /\ Top.pc = "loop" /\ Top.pos <= Len(p_cams)
    /\ TopCam >= Len(TopAnn.video_paths)
    /\ p_stack' = SetTop([Top EXCEPT !.pos = @ + 1])
    /\ UNCHANGED <<NotPipeline, DataVars, p_open, p_examples, LoopVars>>

\* `video_paths[cam_idx]`, then `with av.open(selected_path) as container`:
\* the container opens, or the indexing or av.open raises and control passes
\* to the except clause.
ViewOpen ==
    /\ p_stack # <<>> /\ Top.pc = "loop" /\ Top.pos <= Len(p_cams)
    /\ TopCam < Len(TopAnn.video_paths)
    /\ IF TopPath \in DOMAIN TopAnn.video_paths /\ TopAnn.video_paths[TopPath].open
       THEN /\ p_open' = Append(p_open, [ann |-> Top.idx, cam |-> TopCam])
            /\ p_stack' = SetTop([Top EXCEPT !.pc = "opened"])
       ELSE /\ p_stack' = SetTop([Top EXCEPT !.pc = "except"])
            /\ UNCHANGED p_open
    /\ UNCHANGED <<NotPipeline, DataVars, p_examples, LoopVars>>

\* ViewDecode with a container that is closed only when decoding succeeds.
ViewDecodeNoCloseOnError ==
    /\ p_stack # <<>> /\ Top.pc = "opened"
    /\ LET file == TopAnn.video_paths[TopPath]
       IN  \E draw \in Draws(NumFrames, FrameSampleRate, file.meta) :
             LET indices == sample_frame_indices(NumFrames, FrameSampleRate,
                                                 file.meta, draw)
                 video == read_video_pyav(file.actual, indices)
             IN  IF video.status = "ok"
                 THEN /\ p_stack' = SetTop(
                            [Top EXCEPT !.pc = "loop", !.pos = @ + 1,
                               !.videos = Append(@, View(Top.idx, TopPath - 1, video.frames))])
                      /\ p_open' = SubSeq(p_open, 1, Len(p_open) - 1)
                 ELSE /\ p_stack' = SetTop([Top EXCEPT !.pc = "except"])
                      /\ UNCHANGED p_open
    /\ UNCHANGED <<NotPipeline, DataVars, p_examples, LoopVars>>

\* The body of the with block and its exit: sample the indices, decode, close
\* the container; the view is appended, or the decoder's exception passes to
\* the except clause.
ViewDecode ==
    /\ p_stack # <<>> /\ Top.pc = "opened"
    /\ LET file == TopAnn.video_paths[TopPath]
       IN  \E draw \in Draws(NumFrames, FrameSampleRate, file.meta) :
             LET indices == sample_frame_indices(NumFrames, FrameSampleRate,
                                                 file.meta, draw)
                 video == read_video_pyav(file.actual, indices)
             IN  p_stack' = SetTop(
                    IF video.status = "ok"
                    THEN [Top EXCEPT !.pc = "loop", !.pos = @ + 1,
                            !.videos = Append(@, View(Top.idx, TopPath - 1, video.frames))]
                    ELSE [Top EXCEPT !.pc = "except"])
    /\ p_open' = SubSeq(p_open, 1, Len(p_open) - 1)
    /\ UNCHANGED <<NotPipeline, DataVars, p_examples, LoopVars>>

\* A call returns value: to the loader, or to the call that fell back to it.
Return(value) ==
    IF Len(p_stack) = 1
    THEN /\ p_stack' = <<>>
         /\ p_examples' = Append(p_examples, value)
    ELSE /\ p_stack' = [SubSeq(p_stack, 1, Len(p_stack) - 1)
                          EXCEPT ![Len(p_stack) - 1].pc = "returned",
                                 ![Len(p_stack) - 1].ret = value]
         /\ UNCHANGED p_examples

\* After the loop over camera_indices: `if not videos: raise ValueError`,
\* else the label is looked up and the sample returned.
LoopEnd ==
    /\ p_stack # <<>> /\ Top.pc = "loop" /\ Top.pos > Len(p_cams)
    /\ IF Top.videos = <<>>
       THEN /\ p_stack' = SetTop([Top EXCEPT !.pc = "except"])
            /\ UNCHANGED p_examples
       ELSE Return(Sample(Top.videos, LabelOf(TopAnn.proficiency_level)))
    /\ UNCHANGED <<NotPipeline, DataVars, p_open, LoopVars>>

\* An except clause that returns None for every index.
ExceptReturnsNone ==
    /\ p_stack # <<>> /\ Top.pc = "except"
    /\ Return(NoneExample)
    /\ UNCHANGED <<NotPipeline, DataVars, p_open, LoopVars>>

\* The except clause: `return self[0] if idx != 0 else None`.
Except ==
    /\ p_stack # <<>> /\ Top.pc = "except"
    /\ IF Top.idx # 0
       THEN /\ p_stack' = Append(SetTop([Top EXCEPT !.pc = "fallback"]), Frame(0))
            /\ UNCHANGED p_examples
       ELSE Return(NoneExample)
    /\ UNCHANGED <<NotPipeline, DataVars, p_open, LoopVars>>

\* self[0] has returned: the outer call returns its result.
FallbackReturn ==
    /\ p_stack # <<>> /\ Top.pc = "returned"
    /\ Return(Top.ret)
    /\ UNCHANGED <<NotPipeline, DataVars, p_open, LoopVars>>

\* The loader hands the examples to collate_fn; an exception of torch.stack
\* passes through the loader and ends inference.
Collate ==
    /\ p_loop = "fetch" /\ p_stack = <<>> /\ Len(p_examples) = Len(p_req)
    /\ LET b == collate_fn(p_examples)
       IN  /\ p_batch' = b
           /\ IF b.kind = "error"
              THEN p_loop' = "raised" /\ p_error' = "RuntimeError"
              ELSE p_loop' = "body" /\ UNCHANGED p_error
    /\ UNCHANGED <<NotPipeline, DataVars, p_stack, p_open, p_cursor, p_req, p_examples,
                   p_forwards, p_labels>>

\* The body of the inference loop (src/model.py 683-691): batch["pixel_values"]
\* raises TypeError on None; else one forward pass, and the labels are kept.
LoopBody ==
    /\ p_loop = "body"
    /\ IF p_batch.kind = "none"
       THEN /\ p_loop' = "raised" /\ p_error' = "TypeError"
            /\ UNCHANGED <<p_forwards, p_labels>>
       ELSE /\ p_forwards' = p_forwards + 1
            /\ p_labels' = p_labels \o p_batch.labels
            /\ p_loop' = "next"
            /\ UNCHANGED p_error
    /\ UNCHANGED <<NotPipeline, DataVars, p_stack, p_open, p_cursor, p_req, p_examples, p_batch>>

PipelineNext ==
    \/ LoaderNext \/ GetItemCall \/ ViewSkip \/ ViewOpen \/ ViewDecode
    \/ LoopEnd \/ Except \/ FallbackReturn \/ Collate \/ LoopBody
Spec == PipelineInit /\ [][PipelineNext]_vars

(***************************************************************************)
(* Encoder construction as a machine: VideoClassifier.__init__ loads the   *)
(* pretrained encoder and adapts its time-embedding table (src/model.py    *)
(* 194-198, 238-329).                                                      *)
(***************************************************************************)
SourceTables ==
    UNION {[1..n -> {0, 1}] : n \in (1..MaxSrcLen) \cup {PretrainedFrames}}

EncoderInit ==
    /\ e_src \in SourceTables
    /\ e_layout \in {2, 3}
    /\ e_where \in {"direct", "model", "scan", "absent"}
    /\ e_target \in 1..MaxTarget
    /\ e_table = [k \in DOMAIN e_src |-> Rat(e_src[k], 1)]
    /\ e_id = 0 /\ e_grad = TRUE /\ e_new = <<>>
    /\ e_cfg = Len(e_src)
    /\ e_pc = "loaded"
    /\ SamplerIdle /\ DecoderIdle /\ CollateIdle /\ PipelineIdle
    /\ LabelIdle /\ ProjectorIdle /\ DedupIdle

NotEncoder == <<svars, dvars, cvars, pvars, lvars, jvars, rvars>>

\* `if self.num_frames != 8` is false: the table is left as loaded.
ConstructKeep ==
    /\ e_pc = "loaded" /\ e_target = PretrainedFrames
    /\ e_pc' = "built"
    /\ UNCHANGED <<e_src, e_layout, e_where, e_target, e_table, e_id, e_grad, e_new,
                   e_cfg, NotEncoder>>

\* The table is found nowhere: ValueError.
ConstructNotFound ==
    /\ e_pc = "loaded" /\ e_target # PretrainedFrames /\ e_where = "absent"
    /\ e_pc' = "error"
    /\ UNCHANGED <<e_src, e_layout, e_where, e_target, e_table, e_id, e_grad, e_new,
                   e_cfg, NotEncoder>>

\* `if orig_size[0] == target_frames: return`, then config.num_frames is set.
ConstructNoInterpolation ==
    /\ e_pc = "loaded" /\ e_target # PretrainedFrames /\ e_where # "absent"
    /\ OrigSize0(e_table, e_layout) = e_target
    /\ e_cfg' = e_target
    /\ e_pc' = "built"
    /\ UNCHANGED <<e_src, e_layout, e_where, e_target, e_table, e_id, e_grad, e_new,
                   NotEncoder>>

\* The new table is computed; it replaces the encoder's only when the table
\* was found at one of the two attribute paths (src/model.py 324-327).
ConstructInterpolate ==
    /\ e_pc = "loaded" /\ e_target # PretrainedFrames /\ e_where # "absent"
    /\ OrigSize0(e_table, e_layout) # e_target
    /\ e_new' = Interpolate(e_table, e_target)
    /\ IF e_where \in {"direct", "model"}
       THEN e_table' = e_new' /\ e_id' = e_id + 1 /\ e_grad' = TRUE
       ELSE UNCHANGED <<e_table, e_id, e_grad>>
    /\ e_cfg' = e_target
    /\ e_pc' = "built"
    /\ UNCHANGED <<e_src, e_layout, e_where, e_target, NotEncoder>>

EncoderNext ==
    \/ ConstructKeep \/ ConstructNotFound \/ ConstructNoInterpolation
    \/ ConstructInterpolate
SpecEncoder == EncoderInit /\ [][EncoderNext]_vars

(***************************************************************************)
(* The projector as a machine: two forward passes with the same weights,   *)
(* the first on the views in their order, the second on the views          *)
(* reordered by j_perm.                                                    *)
(***************************************************************************)
ViewLists == UNION {[1..n -> Tokens] : n \in 1..MaxFused}
Reordered(views, perm) == [i \in DOMAIN views |-> views[perm[i]]]

\* What dropout zeroes in one pass: nothing in eval mode; in training mode,
\* of all it can zero, the passes considered zero nothing, one attention
\* weight of the first query, or the hidden unit.
DropChoices(V, training) ==
    IF training
    THEN {{}} \cup {{<<1, j>>} : j \in 1..V} \cup {{<<0, 0>>}}
    ELSE {{}}

ProjectorInit ==
    /\ j_views \in ViewLists
    /\ j_perm \in Permutations(DOMAIN j_views)
    /\ j_training \in BOOLEAN
    /\ j_w \in [Tokens -> [Tokens -> KernelValues]]
    /\ j_v = [x \in Tokens |-> x - 1]
    /\ j_out = <<>>
    /\ SamplerIdle /\ DecoderIdle /\ CollateIdle /\ PipelineIdle /\ EncoderIdle
    /\ LabelIdle /\ DedupIdle

ForwardCall ==
    /\ Len(j_out) < 2
    /\ LET video_feats == IF j_out = <<>> THEN j_views ELSE Reordered(j_views, j_perm)
       IN  \E dropped \in DropChoices(Len(j_views), j_training) :
             j_out' = Append(j_out,
                 [output |-> Forward(video_feats, j_w, j_v, dropped, j_training),
                  dropped |-> dropped])
    /\ UNCHANGED <<j_views, j_perm, j_training, j_w, j_v,
                   svars, dvars, cvars, pvars, evars, lvars, rvars>>

ProjectorNext == ForwardCall
SpecProjector == ProjectorInit /\ [][ProjectorNext]_vars

(***************************************************************************)
(* remove_duplicates_from_jsonl (src/annotations/remove_dupli.py 4-54).    *)
(* A line of the input file is one of: a blank line; text json.loads       *)
(* rejects; an object without "video_paths"; an object whose "video_paths" *)
(* is not a list; one whose list is empty; one whose list starts with the  *)
(* path `first` (`tag` tells lines with the same first path apart).        *)
(***************************************************************************)
Line(kind, first, tag) == [kind |-> kind, first |-> first, tag |-> tag]
FirstPaths == {"a.mp4", "b.mp4"}
LineTags == {1, 2}
Lines ==
    {Line(k, "", 0) : k \in {"blank", "invalid", "no_paths", "not_a_list", "empty_list"}}
        \cup {Line("paths", f, t) : f \in FirstPaths, t \in LineTags}

DedupInit ==
    /\ r_lines \in UNION {[1..n -> Lines] : n \in 0..MaxLines}
    /\ r_pos = 1 /\ r_seen = {} /\ r_out = <<>>
    /\ r_total = 0 /\ r_unique = 0
    /\ r_ret = NoReturn
    /\ SamplerIdle /\ DecoderIdle /\ CollateIdle /\ PipelineIdle /\ EncoderIdle
    /\ LabelIdle /\ ProjectorIdle

NotDedup == <<svars, dvars, cvars, pvars, evars, lvars, jvars>>

\* One iteration of `for line in f_in` (lines 22-48).
ReadLine ==
    /\ r_ret = NoReturn /\ r_pos <= Len(r_lines)
    /\ LET line == r_lines[r_pos]
       IN  /\ r_total' = r_total + 1
           /\ r_pos' = r_pos + 1
           /\ IF line.kind \in {"blank", "invalid"}
              THEN UNCHANGED <<r_seen, r_out, r_unique>>
              ELSE IF line.kind = "paths"
              THEN IF line.first \notin r_seen
                   THEN /\ r_seen' = r_seen \cup {line.first}
                        /\ r_out' = Append(r_out, line)
                        /\ r_unique' = r_unique + 1
                   ELSE UNCHANGED <<r_seen, r_out, r_unique>>
              ELSE /\ r_out' = Append(r_out, line)
                   /\ r_unique' = r_unique + 1
                   /\ UNCHANGED r_seen
    /\ UNCHANGED <<r_lines, r_ret, NotDedup>>

\* After the loop: `duplicates = total_lines - unique_lines`, and the return.
DedupReturn ==
    /\ r_ret = NoReturn /\ r_pos > Len(r_lines)
    /\ r_ret' = [unique_lines |-> r_unique, duplicates |-> r_total - r_unique]
    /\ UNCHANGED <<r_lines, r_pos, r_seen, r_out, r_total, r_unique, NotDedup>>

DedupNext == ReadLine \/ DedupReturn
SpecDedup == DedupInit /\ [][DedupNext]_vars

(***************************************************************************)
(* C2: every sampling call returns exactly clip_len indices, each in       *)
(* [0, seg_len-1], in non-decreasing order.                                *)
(***************************************************************************)
C2_SamplerContract ==
    \A c \in Range(s_calls) :
        /\ Len(c.indices) = s_args.clip_len
        /\ \A k \in DOMAIN c.indices : c.indices[k] \in 0..(s_args.seg_len - 1)
        /\ NonDecreasing(c.indices)

(***************************************************************************)
(* C3: for a non-decreasing index sequence whose last value is below the   *)
(* stream length, the decoder returns len(indices) frames, the k-th being  *)
(* the stream frame at indices[k], repeats included.                       *)
(***************************************************************************)
C3_FramesMatchIndices ==
    (d_ret.status # "pending" /\ d_indices[Len(d_indices)] < d_len)
        => (d_ret.status = "ok" /\ d_ret.frames = d_indices)

(***************************************************************************)
(* C4: when the stream yields fewer frames than indices[-1] + 1, the       *)
(* decoder fails; it never returns an array of frames.                     *)
(***************************************************************************)
C4_ShortStreamFails ==
    (d_ret.status # "pending" /\ d_len < d_indices[Len(d_indices)] + 1)
        => d_ret.status = "error"

(***************************************************************************)
(* C7: collate_fn drops the None entries and stacks the rest: a returned   *)
(* batch has one row per non-None example, in input order, labels[k]       *)
(* belonging to the example of row k; when every entry is None the result  *)
(* is the no-data signal, and a batch never has zero rows.                 *)
(***************************************************************************)
\* The positions of the non-None examples, in increasing order.
KeptPositions(examples) ==
    LET S == {i \in DOMAIN examples : examples[i].kind # "none"}
        RECURSIVE Sorted(_)
        Sorted(R) == IF R = {} THEN <<>>
                     ELSE LET m == CHOOSE i \in R : \A j \in R : i <= j
                          IN  <<m>> \o Sorted(R \ {m})
    IN  Sorted(S)

C7_CollateDropsNone ==
    LET pos == KeptPositions(c_examples)
    IN  /\ c_ret.kind = "batch" =>
              /\ Len(c_ret.pixel_values) = Len(pos)
              /\ Len(c_ret.labels) = Len(pos)
              /\ Len(pos) > 0
              /\ \A k \in DOMAIN pos :
                    /\ c_ret.pixel_values[k] = c_examples[pos[k]].videos
                    /\ c_ret.labels[k] = c_examples[pos[k]].label
        /\ (c_ret.kind # "pending" /\ pos = <<>>) => c_ret.kind = "none"
        /\ (c_ret.kind = "none") => pos = <<>>

\* A batch was built from a list holding both None entries and samples.
C7_Witness ==
    /\ c_ret.kind = "batch"
    /\ Len(c_ret.pixel_values) >= 2
    /\ \E i \in DOMAIN c_examples : c_examples[i].kind = "none"
    /\ c_ret.labels[1] # c_ret.labels[2]

(***************************************************************************)
(* C9 as claimed: for source_len >= 1 and target_len >= 2, larger or       *)
(* smaller than source_len, the interpolated table has row 0 equal to      *)
(* source row 0 and row target_len-1 equal to source row source_len-1.     *)
(***************************************************************************)
C9_EndpointsReproduced ==
    (e_new # <<>> /\ e_target >= 2) =>
        /\ RatEq(e_new[1], Rat(e_src[1], 1))
        /\ RatEq(e_new[e_target], Rat(e_src[Len(e_src)], 1))

(***************************************************************************)
(* C9 as amended: for source_len >= 1 and target_len >= 2, row 0 of the    *)
(* interpolated table equals source row 0, and row target_len-1 equals     *)
(* source row source_len-1 when target_len >= source_len.                  *)
(***************************************************************************)
C9_EndpointsWhenUpsampling ==
    (e_new # <<>> /\ e_target >= 2) =>
        /\ Len(e_new) = e_target
        /\ RatEq(e_new[1], Rat(e_src[1], 1))
        /\ e_target >= Len(e_src) =>
              RatEq(e_new[e_target], Rat(e_src[Len(e_src)], 1))

\* A table of at least two rows, first and last different, was stretched.
C9_Witness ==
    /\ e_new # <<>> /\ Len(e_src) >= 2 /\ e_target > Len(e_src)
    /\ e_src[1] # e_src[Len(e_src)] /\ e_src[1] # e_src[2]

(***************************************************************************)
(* C10: when the table's frame dimension already equals target_len, for    *)
(* both layouts (F, D) and (1, F, D), construction leaves the encoder's    *)
(* table unchanged: same parameter object, same values, same trainability  *)
(* flag.                                                                   *)
(***************************************************************************)
TableUnchanged ==
    /\ e_id = 0
    /\ e_grad = TRUE
    /\ Len(e_table) = Len(e_src)
    /\ \A k \in DOMAIN e_src : RatEq(e_table[k], Rat(e_src[k], 1))

C10_SameLengthIsNoOp ==
    (e_pc = "built" /\ Len(e_src) = e_target) => TableUnchanged

(***************************************************************************)
(* C1: a sample whose views all fail to decode is excluded: the example    *)
(* fetched for index idx is None or is made of annotation idx's own views  *)
(* and label, and every row of a batch comes from an index requested for   *)
(* that batch.                                                             *)
(***************************************************************************)
OwnSample(example, idx) ==
    /\ \A k \in DOMAIN example.videos : example.videos[k].ann = idx
    /\ example.label = LabelOf(p_ann[idx + 1].proficiency_level)

C1_NoSubstitution ==
    /\ \A k \in DOMAIN p_examples :
          p_examples[k].kind = "sample" => OwnSample(p_examples[k], p_req[k])
    /\ p_batch.kind = "batch" =>
          \A r \in DOMAIN p_batch.pixel_values :
              \A k \in DOMAIN p_batch.pixel_values[r] :
                  p_batch.pixel_values[r][k].ann \in Range(p_req)

(***************************************************************************)
(* C5: when decoding fails for one configured camera view of a record but  *)
(* succeeds for at least one other, __getitem__ returns that record's      *)
(* sample made of the successfully decoded views, in configured order.     *)
(***************************************************************************)
\* Whether a file opens and decodes, whatever the sampler draws.
Decodes(file) ==
    /\ file.open
    /\ \A draw \in Draws(NumFrames, FrameSampleRate, file.meta) :
          read_video_pyav(file.actual,
              sample_frame_indices(NumFrames, FrameSampleRate, file.meta, draw)).status = "ok"

\* The configured cameras present in the record, in configured order.
PresentCams(ann) ==
    SelectSeq(p_cams, LAMBDA c : 0 <= c /\ c < Len(ann.video_paths))

C5_PartialFailureKeepsSample ==
    \A k \in DOMAIN p_examples :
        LET idx == p_req[k]
            ann == p_ann[idx + 1]
            present == PresentCams(ann)
            good == SelectSeq(present, LAMBDA c : Decodes(ann.video_paths[c + 1]))
        IN  (good # <<>> /\ good # present) =>
                /\ p_examples[k].kind = "sample"
                /\ Len(p_examples[k].videos) = Len(good)
                /\ \A v \in DOMAIN good :
                      /\ p_examples[k].videos[v].ann = idx
                      /\ p_examples[k].videos[v].cam = good[v]

(***************************************************************************)
(* C6: when every sample of a batch failed (collate_fn returned the        *)
(* no-data signal), the loop skips the batch and goes on without raising.  *)
(***************************************************************************)
C6_EmptyBatchSkipped ==
    p_batch.kind = "none" => p_loop # "raised"

(***************************************************************************)
(* C8: every batch assembled from samples the dataset returned has one     *)
(* view count: batch assembly never fails on samples of different view     *)
(* counts.                                                                 *)
(***************************************************************************)
C8_UniformViewCount ==
    /\ p_batch.kind = "batch" =>
          \A r \in DOMAIN p_batch.pixel_values :
              Len(p_batch.pixel_values[r]) = Len(p_batch.pixel_values[1])
    /\ ~(p_batch.kind = "error" /\ p_batch.error = "views")

(***************************************************************************)
(* Label lookup.                                                           *)
(***************************************************************************)
\* The class a case-insensitive lookup gives: the class of the name that
\* equals the string when case is ignored, 0 when there is none.
SameIgnoringCase(a, b) == AllLower(a) = AllLower(b)
CaseInsensitiveClass(str) ==
    IF SameIgnoringCase(str, Novice) THEN 0
    ELSE IF SameIgnoringCase(str, EarlyExpert) THEN 1
    ELSE IF SameIgnoringCase(str, IntermediateExpert) THEN 2
    ELSE IF SameIgnoringCase(str, LateExpert) THEN 3
    ELSE 0

\* C11: the label looked up for a proficiency string is in {0,1,2,3}; it is
\* the class of the recognised name the string equals up to case, and 0 for
\* every string that is no recognised name.
C11_LabelLookup ==
    l_ret # -1 => (l_ret \in 0..3 /\ l_ret = CaseInsensitiveClass(l_str))

\* A class name in a casing that is neither the table's nor all-lower,
\* looked up as its class.
C11_Witness ==
    /\ l_ret = 2
    /\ l_str = Recased(AllUpper(IntermediateExpert), {1})

(***************************************************************************)
(* Container handles.                                                      *)
(***************************************************************************)
\* C12: at most one container is open at any time, and one is open only
\* while the innermost __getitem__ call is inside the with block of the view
\* it is loading: none is open when a call enters its except clause, waits
\* for its fallback call, or has returned.
C12_HandlesReleased ==
    /\ Len(p_open) <= 1
    /\ p_open # <<>> =>
          /\ p_stack # <<>>
          /\ Top.pc = "opened"
          /\ p_open[1] = [ann |-> Top.idx, cam |-> TopCam]

\* The fallback call has a container open, after the outer call opened one
\* of its own and failed to decode from it.
C12_Witness ==
    /\ Len(p_stack) = 2
    /\ Top.pc = "opened"
    /\ Len(p_open) = 1
    /\ LET outer == p_stack[1]
       IN  /\ outer.pc = "fallback"
           /\ outer.pos <= Len(p_cams)
           /\ p_cams[outer.pos] \in 0..(Len(p_ann[outer.idx + 1].video_paths) - 1)
           /\ p_ann[outer.idx + 1].video_paths[p_cams[outer.pos] + 1].open

(***************************************************************************)
(* Fusion projector.                                                       *)
(***************************************************************************)
\* C13 as claimed: the forward output on the reordered views is the output
\* on the views in their original order (dropout, where it is active, having
\* zeroed the same elements in both passes).
C13_PermutationInvariant ==
    (Len(j_out) = 2 /\ j_out[1].dropped = j_out[2].dropped)
        => j_out[1].output = j_out[2].output

\* C13, for a projector in eval mode (dropout inactive): the forward output
\* on the reordered views is the output on the views in their original order.
C13_PermutationInvariantInEval ==
    (~j_training /\ Len(j_out) = 2) => j_out[1].output = j_out[2].output

\* Three views, not all alike, fused in two different orders by an attention
\* kernel that tells the tokens apart, in eval mode.
C13_Witness ==
    /\ ~j_training
    /\ Len(j_out) = 2
    /\ Len(j_views) = 3
    /\ Reordered(j_views, j_perm) # j_views
    /\ j_w[1] # j_w[2]
    /\ j_w[1][1] # j_w[1][2]

(***************************************************************************)
(* Encoder construction.                                                   *)
(***************************************************************************)
\* C14: once construction with num_frames = F has completed on a checkpoint
\* of PretrainedFrames frames, the encoder's time-embedding table has F
\* frames, whatever F, the layout of the table and the place it was found.
C14_TableHasConfiguredFrames ==
    (e_pc = "built" /\ Len(e_src) = PretrainedFrames) => Len(e_table) = e_target

(***************************************************************************)
(* The sampler and the random generator.                                   *)
(***************************************************************************)
\* C15: a sampling call changes no state another call observes, and its
\* result does not depend on the calls made before it: it leaves the
\* generator as it found it and returns what every earlier call with the
\* same arguments returned.
C15_NoSharedSamplingState ==
    [][Len(s_calls') > Len(s_calls) =>
          /\ s_rng' = s_rng
          /\ \A c \in Range(s_calls) : c.indices = s_calls'[Len(s_calls')].indices]_vars

\* C17: when seg_len <= clip_len * sample_rate, calls with the same
\* arguments return the same indices whatever the generator's state; when
\* seg_len > clip_len * sample_rate, end_idx lies in
\* [clip_len * sample_rate, seg_len) and every index returned lies in
\* [end_idx - clip_len * sample_rate, end_idx - 1].
C17_DeterministicOrWindowed ==
    LET converted_len == s_args.clip_len * s_args.rate
    IN  IF s_args.seg_len <= converted_len
        THEN \A c1 \in Range(s_calls) : \A c2 \in Range(s_calls) :
                c1.indices = c2.indices
        ELSE \A c \in Range(s_calls) :
                /\ c.end_idx \in converted_len..(s_args.seg_len - 1)
                /\ \A k \in DOMAIN c.indices :
                      c.indices[k] \in (c.end_idx - converted_len)..(c.end_idx - 1)

\* Two calls on a stream no longer than the sampling window, made in
\* different states of the generator.
C17_Witness ==
    /\ Len(s_calls) = 2
    /\ s_args.clip_len >= 2
    /\ s_args.seg_len >= 2
    /\ s_args.seg_len <= s_args.clip_len * s_args.rate
    /\ s_calls[1].rng # s_calls[2].rng

(***************************************************************************)
(* The views of a sample.                                                  *)
(***************************************************************************)
\* C16: a configured camera index c is present in an annotation when
\* 0 <= c < len(video_paths).  When every video of annotation idx decodes,
\* the example fetched for idx holds exactly the views of the present
\* cameras, in configured order; when no configured camera is present the
\* call fails (its result is None or what the fallback call returned, no
\* view of idx); no sample has an empty view list.
C16_ViewsArePresentCameras ==
    \A k \in DOMAIN p_examples :
        LET idx == p_req[k]
            ann == p_ann[idx + 1]
            present == PresentCams(ann)
            example == p_examples[k]
        IN  /\ example.kind = "sample" => example.videos # <<>>
            /\ (present # <<>> /\ \A i \in DOMAIN ann.video_paths :
                                     Decodes(ann.video_paths[i])) =>
                  /\ example.kind = "sample"
                  /\ Len(example.videos) = Len(present)
                  /\ \A v \in DOMAIN present :
                        /\ example.videos[v].ann = idx
                        /\ example.videos[v].cam = present[v]
            /\ present = <<>> =>
                  \/ example.kind = "none"
                  \/ \A v \in DOMAIN example.videos : example.videos[v].ann # idx

(***************************************************************************)
(* De-duplication of the annotation file.                                  *)
(***************************************************************************)
\* Line i starts with a video path that an earlier line starts with.
RepeatsFirstPath(i) ==
    /\ r_lines[i].kind = "paths"
    /\ \E j \in 1..(i - 1) :
          r_lines[j].kind = "paths" /\ r_lines[j].first = r_lines[i].first

\* Line i is to be written: it parses, and its first path is new or it has none.
ToBeWritten(i) ==
    /\ r_lines[i].kind \notin {"blank", "invalid"}
    /\ ~RepeatsFirstPath(i)

RECURSIVE WrittenUpTo(_)
WrittenUpTo(n) ==
    IF n = 0 THEN <<>>
    ELSE IF ToBeWritten(n) THEN Append(WrittenUpTo(n - 1), r_lines[n])
    ELSE WrittenUpTo(n - 1)

\* C18: the output file holds, in input order, the first line of each first
\* video path and every parseable line without a first video path; the
\* returned duplicates count is the number of lines dropped because their
\* first video path was already seen.
C18_DedupOutputAndCount ==
    r_ret # NoReturn =>
        /\ r_out = WrittenUpTo(Len(r_lines))
        /\ r_ret.duplicates = Cardinality({i \in DOMAIN r_lines : RepeatsFirstPath(i)})

\* The output file alone.
DedupOutputAsStated ==
    r_ret # NoReturn => r_out = WrittenUpTo(Len(r_lines))

(***************************************************************************)
(* Termination and result of __getitem__.                                  *)
(***************************************************************************)
\* Whether __getitem__ on the annotation can fail: no configured camera is
\* loaded, or one that is not skipped has no path, cannot be opened or fails
\* to decode.
CanFail(ann) ==
    LET tried == SelectSeq(p_cams, LAMBDA c : c < Len(ann.video_paths))
    IN  \/ tried = <<>>
        \/ \E v \in DOMAIN tried :
              LET at == PathIndex(ann.video_paths, tried[v])
              IN  \/ at \notin DOMAIN ann.video_paths
                  \/ ~Decodes(ann.video_paths[at])

AtMostOneFallback ==
    /\ Len(p_stack) <= 2
    /\ Len(p_stack) = 2 =>
          /\ p_stack[2].idx = 0
          /\ p_stack[1].idx # 0
          /\ p_stack[1].pc = "fallback"

ResultIsNoneOrSample ==
    \A k \in DOMAIN p_examples :
        LET example == p_examples[k]
        IN  /\ example.kind \in {"none", "sample"}
            /\ example.kind = "sample" =>
                  (example.videos # <<>> /\ example.label \in 0..3)
            /\ example.kind = "none" => CanFail(p_ann[1])

\* The steps a call can still take, as a number every step lowers.  A call
\* on an index other than 0 that reaches its except clause still has the
\* whole fallback call before it.
ExceptRank(idx) == IF idx = 0 THEN 1 ELSE 2 * Len(p_cams) + 5
FrameRank(f) ==
    IF f.pc = "loop" THEN 2 * (Len(p_cams) - f.pos + 1) + 1 + ExceptRank(f.idx)
    ELSE IF f.pc = "opened" THEN 2 * (Len(p_cams) - f.pos + 1) + ExceptRank(f.idx)
    ELSE IF f.pc = "except" THEN ExceptRank(f.idx)
    ELSE IF f.pc = "fallback" THEN 2
    ELSE 1
StackRank(stack) == SumInts([k \in DOMAIN stack |-> FrameRank(stack[k])], Len(stack))

\* A call that has not returned can take a step: the guard of ViewSkip,
\* ViewOpen or LoopEnd, of ViewDecode, of Except or of FallbackReturn holds.
CallCanStep ==
    p_stack # <<>> =>
        \/ /\ Top.pc = "loop"
           /\ \/ Top.pos > Len(p_cams)
              \/ TopCam >= Len(TopAnn.video_paths)
              \/ TopCam < Len(TopAnn.video_paths)
        \/ /\ Top.pc = "opened"
           /\ Draws(NumFrames, FrameSampleRate, TopAnn.video_paths[TopPath].meta) # {}
        \/ Top.pc = "except"
        \/ Top.pc = "returned"

\* C19: a __getitem__ call holds at most one nested call, the fallback to
\* index 0, which makes no further call; a call that has not returned can
\* step and every step brings it nearer to its return, so it terminates; the
\* result is None or a sample with at least one view and a label in 0..3,
\* and it is None only when annotation 0 fails.
C19_TerminatesWithOneFallback ==
    /\ [](AtMostOneFallback /\ ResultIsNoneOrSample /\ CallCanStep)
    /\ [][p_stack # <<>> => StackRank(p_stack') < StackRank(p_stack)]_vars

\* A call on an index other than 0 has fallen back to index 0 and returned
\* None.
C19_Witness ==
    \E k \in DOMAIN p_examples :
        p_req[k] # 0 /\ p_examples[k].kind = "none"

=============================================================================
